---------------------------- MODULE Spec2Model ----------------------------
(***************************************************************************)
(* Encrypted identity store with simulated homomorphic equality.           *)
(*                                                                         *)
(*   src/server/lib/fhe.ts   FHESimulator: encrypt, decrypt,               *)
(*                           homomorphicEquality                           *)
(*   src/unnamed/part_000    registerRoutes: POST /api/identities,         *)
(*                           POST /api/verify, seedDatabase                *)
(*   src/unnamed/part_001    DatabaseStorage: createIdentity,              *)
(*                           getIdentityByHash                             *)
(*   src/shared/schema.ts    identities table, registerIdentitySchema,     *)
(*                           verifyIdentitySchema                          *)
(*   src/unnamed/part_002    VerifyIdentity: onSubmit with the client's    *)
(*                           hash, mockEncrypt and mockDecrypt             *)
(*                                                                         *)
(* JavaScript strings that the code inspects character by character are    *)
(* sequences of one-character strings.  A JavaScript value is a record     *)
(* [t, s, n]: t is the typeof tag, s the characters of a string, n the     *)
(* number (or 0/1 for a boolean).  A number that is no integer keeps its    *)
(* integer part in n and its decimal digits in s: 18.5 is n = 18 with       *)
(* s = <<"5">>; the numbers of this model that have decimals are positive.  *)
(***************************************************************************)
EXTENDS Integers, Sequences, FiniteSets, Bags, TLC

VARIABLES
    rows,      \* the identities table: a sequence of rows, in insertion order
    idSeq,     \* the serial sequence behind identities.id: last value handed out
    seedPc,    \* where seedDatabase stands: "start", "existing", "insert",
               \* "inserted", "refused", "done", "failed"
    pending,   \* the handlers that await their storage statement: a bag
    sent,      \* the response the latest step sent, with its request
    fhe,       \* the harness that applies FHESimulator's functions to given inputs
    call,      \* the harness that applies a route handler to one given request
    page       \* the verifying page: result, logs and the invocations of
               \* onSubmit that have not ended

vars == <<rows, idSeq, seedPc, pending, sent, fhe, call, page>>
server == <<rows, idSeq, seedPc, pending, sent>>

(***************************************************************************)
(* JavaScript values                                                       *)
(***************************************************************************)
MkString(s) == [t |-> "string", s |-> s, n |-> 0]
MkNumber(n) == [t |-> "number", s |-> <<>>, n |-> n]
MkFraction(n, decimals) == [t |-> "number", s |-> decimals, n |-> n]
MkBoolean(b) == [t |-> "boolean", s |-> <<>>, n |-> IF b THEN 1 ELSE 0]
JSNull == [t |-> "null", s |-> <<>>, n |-> 0]
JSUndefined == [t |-> "undefined", s |-> <<>>, n |-> 0]

DigitChars == <<"0", "1", "2", "3", "4", "5", "6", "7", "8", "9">>

IsDigit(c) == \E i \in 1..10 : DigitChars[i] = c

DigitVal(c) == (CHOOSE i \in 1..10 : DigitChars[i] = c) - 1

AllDigits(s) == \A i \in 1..Len(s) : IsDigit(s[i])

RECURSIVE DigitsToNat(_)
DigitsToNat(s) ==
    IF s = <<>> THEN 0
    ELSE 10 * DigitsToNat(SubSeq(s, 1, Len(s) - 1)) + DigitVal(s[Len(s)])

RECURSIVE NatToDigits(_)
NatToDigits(n) ==
    IF n < 10 THEN <<DigitChars[n + 1]>>
    ELSE NatToDigits(n \div 10) \o <<DigitChars[(n % 10) + 1]>>

\* Number.prototype.toString / JSON.stringify of an integer-valued number.
NumberToString(n) == IF n < 0 THEN <<"-">> \o NatToDigits(0 - n) ELSE NatToDigits(n)

\* The same for any number of the model: the decimals follow a point.
NumberText(x) ==
    IF x.s = <<>> THEN NumberToString(x.n) ELSE NumberToString(x.n) \o <<".">> \o x.s

\* Where the decimal point stands in a numeral, 0 when there is none.
PointAt(s) ==
    IF \E i \in 1..Len(s) : s[i] = "."
    THEN CHOOSE i \in 1..Len(s) : s[i] = "." /\ \A j \in 1..(i - 1) : s[j] # "."
    ELSE 0

\* Decimal digits without the zeros that end them.
RECURSIVE StripZeros(_)
StripZeros(s) ==
    IF s # <<>> /\ s[Len(s)] = "0" THEN StripZeros(SubSeq(s, 1, Len(s) - 1)) ELSE s

RECURSIVE TrimLeft(_)
TrimLeft(s) == IF s # <<>> /\ Head(s) = " " THEN TrimLeft(Tail(s)) ELSE s

RECURSIVE TrimRight(_)
TrimRight(s) ==
    IF s # <<>> /\ s[Len(s)] = " " THEN TrimRight(SubSeq(s, 1, Len(s) - 1)) ELSE s

\* ToNumber applied to a string (the StringToNumber of the language): white
\* space is trimmed, the empty string is 0, a signed run of decimal digits,
\* with or without a decimal point, is its value, anything else is NaN.  The
\* strings of this model hold no exponent, radix prefix or "Infinity", the
\* other literals ToNumber reads.  [nan, n, decimals].
StringToNumber(s) ==
    LET body == TrimRight(TrimLeft(s))
        signed == body # <<>> /\ Head(body) \in {"-", "+"}
        digits == IF signed THEN Tail(body) ELSE body
        point == PointAt(digits)
        whole == IF point = 0 THEN digits ELSE SubSeq(digits, 1, point - 1)
        decimals == IF point = 0 THEN <<>> ELSE SubSeq(digits, point + 1, Len(digits))
    IN  IF body = <<>> THEN [nan |-> FALSE, n |-> 0, decimals |-> <<>>]
        ELSE IF /\ AllDigits(whole)
                /\ AllDigits(decimals)
                /\ (whole # <<>> \/ decimals # <<>>)
             THEN [nan |-> FALSE,
                   n |-> IF Head(body) = "-" THEN 0 - DigitsToNat(whole)
                         ELSE DigitsToNat(whole),
                   decimals |-> StripZeros(decimals)]
             ELSE [nan |-> TRUE, n |-> 0, decimals |-> <<>>]

\* ToNumber of a primitive: used by == when the operand types differ.
ToNumber(x) ==
    CASE x.t = "number" -> [nan |-> FALSE, n |-> x.n, decimals |-> x.s]
      [] x.t = "boolean" -> [nan |-> FALSE, n |-> x.n, decimals |-> <<>>]
      [] x.t = "string" -> StringToNumber(x.s)
      [] x.t = "null" -> [nan |-> FALSE, n |-> 0, decimals |-> <<>>]
      [] OTHER -> [nan |-> TRUE, n |-> 0, decimals |-> <<>>]

\* x === y on primitives.
StrictEquals(x, y) == x.t = y.t /\ x.s = y.s /\ x.n = y.n

\* What "v1 == v2" computes on primitives (fhe.ts line 52): equal types
\* compare strictly, null and undefined equal each other and
\* nothing else, and otherwise both sides are converted to numbers.
LooseEquals(x, y) ==
    IF x.t = y.t THEN StrictEquals(x, y)
    ELSE IF x.t \in {"null", "undefined"} \/ y.t \in {"null", "undefined"}
         THEN x.t \in {"null", "undefined"} /\ y.t \in {"null", "undefined"}
         ELSE LET a == ToNumber(x)
                  b == ToNumber(y)
              IN  ~a.nan /\ ~b.nan /\ a.n = b.n /\ a.decimals = b.decimals

(***************************************************************************)
(* JSON text of a scalar, as JSON.stringify writes it and JSON.parse reads *)
(* it back                                                                 *)
(***************************************************************************)
DQuote == "\""
BSlash == "\\"

RECURSIVE JSONEscape(_)
JSONEscape(s) ==
    IF s = <<>> THEN <<>>
    ELSE IF Head(s) \in {DQuote, BSlash}
         THEN <<BSlash, Head(s)>> \o JSONEscape(Tail(s))
         ELSE <<Head(s)>> \o JSONEscape(Tail(s))

\* The body of a JSON string literal, read back: fails on a bare quote or a
\* backslash that escapes nothing.
RECURSIVE JSONUnescape(_)
JSONUnescape(s) ==
    IF s = <<>> THEN [ok |-> TRUE, s |-> <<>>]
    ELSE IF Head(s) = DQuote THEN [ok |-> FALSE, s |-> <<>>]
    ELSE IF Head(s) = BSlash
         THEN IF Len(s) >= 2 /\ s[2] \in {DQuote, BSlash}
              THEN LET rest == JSONUnescape(SubSeq(s, 3, Len(s)))
                   IN  [ok |-> rest.ok, s |-> <<s[2]>> \o rest.s]
              ELSE [ok |-> FALSE, s |-> <<>>]
         ELSE LET rest == JSONUnescape(Tail(s))
              IN  [ok |-> rest.ok, s |-> <<Head(s)>> \o rest.s]

\* A serializer that writes every value as a string literal, as
\* JSON.stringify(String(value)) would.
JSONStringifyValueAsString(x) ==
    <<DQuote>> \o (IF x.t = "number" THEN NumberText(x) ELSE JSONEscape(x.s))
        \o <<DQuote>>

\* JSON.stringify of a primitive value (undefined has no JSON text: the key
\* that holds it is left out, see JSONStringifyPayload).
JSONStringifyValue(x) ==
    CASE x.t = "string" -> <<DQuote>> \o JSONEscape(x.s) \o <<DQuote>>
      [] x.t = "number" -> NumberText(x)
      [] x.t = "boolean" -> IF x.n = 1 THEN <<"t", "r", "u", "e">>
                            ELSE <<"f", "a", "l", "s", "e">>
      [] OTHER -> <<"n", "u", "l", "l">>

\* A JSON integer literal: an optional minus, then "0" or digits that do not
\* start with 0.
IsJSONInteger(text) ==
    LET digits == IF text # <<>> /\ Head(text) = "-" THEN Tail(text) ELSE text
    IN  /\ digits # <<>>
        /\ AllDigits(digits)
        /\ (Len(digits) > 1 => Head(digits) # "0")

\* A JSON number with a fraction: an integer literal, a point, digits.
IsJSONDecimal(text) ==
    LET point == PointAt(text)
    IN  /\ point > 1
        /\ point < Len(text)
        /\ IsJSONInteger(SubSeq(text, 1, point - 1))
        /\ AllDigits(SubSeq(text, point + 1, Len(text)))

\* JSON.parse of the text of a scalar: [ok, val]; ok = FALSE is a SyntaxError.
JSONParseValue(text) ==
    IF text = <<"n", "u", "l", "l">> THEN [ok |-> TRUE, val |-> JSNull]
    ELSE IF text = <<"t", "r", "u", "e">> THEN [ok |-> TRUE, val |-> MkBoolean(TRUE)]
    ELSE IF text = <<"f", "a", "l", "s", "e">> THEN [ok |-> TRUE, val |-> MkBoolean(FALSE)]
    ELSE IF Len(text) >= 2 /\ Head(text) = DQuote /\ text[Len(text)] = DQuote
         THEN LET body == JSONUnescape(SubSeq(text, 2, Len(text) - 1))
              IN  [ok |-> body.ok, val |-> MkString(body.s)]
    ELSE IF IsJSONInteger(text)
         THEN [ok |-> TRUE,
               val |-> MkNumber(IF Head(text) = "-" THEN 0 - DigitsToNat(Tail(text))
                                ELSE DigitsToNat(text))]
    ELSE IF IsJSONDecimal(text)
         THEN LET point == PointAt(text)
                  whole == SubSeq(text, 1, point - 1)
              IN  [ok |-> TRUE,
                   val |-> MkFraction(IF Head(text) = "-" THEN 0 - DigitsToNat(Tail(whole))
                                      ELSE DigitsToNat(whole),
                                      StripZeros(SubSeq(text, point + 1, Len(text))))]
    ELSE [ok |-> FALSE, val |-> JSUndefined]

(***************************************************************************)
(* The payload text and the envelope                                       *)
(*                                                                         *)
(* The payload is the text {"v":<scalar>,"r":"<hex>"}; the model keeps its *)
(* syntax class (form) and, for an object, the text of v and the nonce r:  *)
(*   "object"     {"v":35,"r":"ab"}  or, with hasV = FALSE, {"r":"ab"}      *)
(*   "null"       null                                                     *)
(*   "primitive"  7                                                        *)
(*   "invalid"    {v:                 (no JSON text)                       *)
(* The envelope is the text {"type":..,"data":..,"noise":..}, with the     *)
(* same four forms; data is "base64" (a string), "number" ("data":5) or    *)
(* "absent" (no data key).                                                 *)
(***************************************************************************)
PayloadObject(hasV, v, r) == [form |-> "object", hasV |-> hasV, v |-> v, r |-> r]
PayloadOther(form) == [form |-> form, hasV |-> FALSE, v |-> <<>>, r |-> 0]

\* JSON.stringify({ v: value, r: ... }) (fhe.ts line 21).
JSONStringifyPayload(value, r) ==
    IF value.t = "undefined" THEN PayloadObject(FALSE, <<>>, r)
    ELSE PayloadObject(TRUE, JSONStringifyValue(value), r)

\* JSON.parse(payload) followed by ".v" (fhe.ts lines 38-39): parsing fails
\* on text that is no JSON, reading .v of null throws, and reading .v of a
\* primitive or of an object without the key gives undefined.
JSONParsePayloadV(p) ==
    CASE p.form = "invalid" -> [ok |-> FALSE, val |-> JSUndefined]
      [] p.form = "null" -> [ok |-> FALSE, val |-> JSUndefined]
      [] p.form = "primitive" -> [ok |-> TRUE, val |-> JSUndefined]
      [] OTHER -> IF p.hasV THEN JSONParseValue(p.v)
                  ELSE [ok |-> TRUE, val |-> JSUndefined]

(***************************************************************************)
(* Characters and bytes                                                    *)
(*                                                                         *)
(* Base64 text stands for bytes, so what a ciphertext's data carries is    *)
(* the payload with the text of v as bytes.  An ASCII character and its    *)
(* byte are the same one-character string.  Three characters outside       *)
(* ASCII are named by their code point, the bytes above 0x7F by their      *)
(* value.                                                                  *)
(***************************************************************************)
EAcute == "U+00E9"            \* e with acute accent: within Latin-1
Meem == "U+0645"              \* Arabic letter meem: beyond Latin-1
ReplacementChar == "U+FFFD"   \* what a UTF-8 decoder writes for ill-formed bytes

HighBytes == {"0xC3", "0xA9", "0xD9", "0x85", "0xE9", "0xEF", "0xBF", "0xBD"}

\* The UTF-8 bytes of a string, as Buffer.from(string) writes them.
RECURSIVE Utf8Bytes(_)
Utf8Bytes(s) ==
    IF s = <<>> THEN <<>>
    ELSE (CASE Head(s) = EAcute -> <<"0xC3", "0xA9">>
            [] Head(s) = Meem -> <<"0xD9", "0x85">>
            [] Head(s) = ReplacementChar -> <<"0xEF", "0xBF", "0xBD">>
            [] OTHER -> <<Head(s)>>) \o Utf8Bytes(Tail(s))

Utf8Encode(s) ==
    IF \A i \in 1..Len(s) : s[i] \notin {EAcute, Meem, ReplacementChar} THEN s
    ELSE Utf8Bytes(s)

\* The string a UTF-8 decoder reads from bytes, as buffer.toString('utf-8')
\* does: a byte above 0x7F that starts none of the three sequences above is
\* ill-formed and read as U+FFFD (of such bytes the model has 0xE9 alone,
\* never followed by a continuation byte).
RECURSIVE Utf8Chars(_)
Utf8Chars(b) ==
    IF b = <<>> THEN <<>>
    ELSE IF Head(b) \notin HighBytes THEN <<Head(b)>> \o Utf8Chars(Tail(b))
    ELSE IF Len(b) >= 2 /\ b[1] = "0xC3" /\ b[2] = "0xA9"
         THEN <<EAcute>> \o Utf8Chars(SubSeq(b, 3, Len(b)))
    ELSE IF Len(b) >= 2 /\ b[1] = "0xD9" /\ b[2] = "0x85"
         THEN <<Meem>> \o Utf8Chars(SubSeq(b, 3, Len(b)))
    ELSE IF Len(b) >= 3 /\ b[1] = "0xEF" /\ b[2] = "0xBF" /\ b[3] = "0xBD"
         THEN <<ReplacementChar>> \o Utf8Chars(SubSeq(b, 4, Len(b)))
    ELSE <<ReplacementChar>> \o Utf8Chars(Tail(b))

Utf8Decode(b) ==
    IF \A i \in 1..Len(b) : b[i] \notin HighBytes THEN b ELSE Utf8Chars(b)

\* The bytes btoa reads from a string, one per character: [ok, bytes];
\* ok = FALSE is the InvalidCharacterError for a character above U+00FF.
RECURSIVE Latin1Encode(_)
Latin1Encode(s) ==
    IF s = <<>> THEN [ok |-> TRUE, bytes |-> <<>>]
    ELSE IF Head(s) \in {Meem, ReplacementChar} THEN [ok |-> FALSE, bytes |-> <<>>]
    ELSE LET rest == Latin1Encode(Tail(s))
         IN  [ok |-> rest.ok,
              bytes |-> IF ~rest.ok THEN <<>>
                        ELSE <<IF Head(s) = EAcute THEN "0xE9" ELSE Head(s)>> \o rest.bytes]

\* The string atob returns, one character per byte.
Latin1Decode(b) ==
    [i \in 1..Len(b) |->
        CASE b[i] = "0xE9" -> EAcute
          [] b[i] = "0xC3" -> "U+00C3"
          [] b[i] = "0xA9" -> "U+00A9"
          [] b[i] = "0xD9" -> "U+00D9"
          [] b[i] = "0x85" -> "U+0085"
          [] b[i] = "0xEF" -> "U+00EF"
          [] b[i] = "0xBF" -> "U+00BF"
          [] b[i] = "0xBD" -> "U+00BD"
          [] OTHER -> b[i]]

\* Buffer.from(payload).toString('base64') (fhe.ts line 22).
Base64Encode(p) == [kind |-> "base64", text |-> [p EXCEPT !.v = Utf8Encode(p.v)]]
DataOther(kind) == [kind |-> kind, text |-> PayloadOther("invalid")]

\* Buffer.from(ct.data, 'base64').toString('utf-8') (fhe.ts line 37): throws
\* a TypeError unless data is a string.
Base64Decode(d) ==
    IF d.kind = "base64" THEN [ok |-> TRUE, text |-> [d.text EXCEPT !.v = Utf8Decode(d.text.v)]]
    ELSE [ok |-> FALSE, text |-> PayloadOther("invalid")]

\* btoa(payload) (part_002 line 61): [ok, data].
Btoa(p) ==
    LET latin1 == Latin1Encode(p.v)
    IN  IF latin1.ok
        THEN [ok |-> TRUE, data |-> [kind |-> "base64", text |-> [p EXCEPT !.v = latin1.bytes]]]
        ELSE [ok |-> FALSE, data |-> DataOther("absent")]

\* atob(ct.data) (part_002 line 98): throws unless data is base64 text.
Atob(d) ==
    IF d.kind = "base64" THEN [ok |-> TRUE, text |-> [d.text EXCEPT !.v = Latin1Decode(d.text.v)]]
    ELSE [ok |-> FALSE, text |-> PayloadOther("invalid")]

SchemeTag == "FHE_CT"

Envelope(type, data, noise) ==
    [form |-> "object", type |-> type, data |-> data, noise |-> noise]
EnvelopeOther(form) ==
    [form |-> form, type |-> "absent", data |-> DataOther("absent"), noise |-> 0]

(***************************************************************************)
(* FHESimulator (src/server/lib/fhe.ts)                                    *)
(***************************************************************************)
\* An encrypt that leaves the nonce out of the payload.
encryptNoNonce(value, r, noise) ==
    Envelope(SchemeTag, Base64Encode(JSONStringifyPayload(value, 0)), noise)

\* encrypt(value): r stands for randomBytes(8), noise for randomBytes(16).
encrypt(value, r, noise) ==
    Envelope(SchemeTag, Base64Encode(JSONStringifyPayload(value, r)), noise)

DecryptionFailed == [ok |-> FALSE, val |-> JSUndefined]

\* decrypt(ciphertext): [ok, val]; ok = FALSE is Error("Decryption Failed").
decrypt(ct) ==
    IF ct.form # "object" THEN DecryptionFailed
    ELSE IF ct.type # SchemeTag THEN DecryptionFailed
    ELSE LET payload == Base64Decode(ct.data)
         IN  IF ~payload.ok THEN DecryptionFailed
             ELSE LET json == JSONParsePayloadV(payload.text)
                  IN  IF json.ok THEN [ok |-> TRUE, val |-> json.val]
                      ELSE DecryptionFailed

\* homomorphicEquality(ct1, ct2): [ok, ct]; ok = FALSE when a decrypt throws.
homomorphicEquality(ct1, ct2, r, noise) ==
    LET v1 == decrypt(ct1)
        v2 == decrypt(ct2)
    IN  IF ~v1.ok \/ ~v2.ok THEN [ok |-> FALSE, ct |-> EnvelopeOther("invalid")]
        ELSE [ok |-> TRUE,
              ct |-> encrypt(MkNumber(IF LooseEquals(v1.val, v2.val) THEN 1 ELSE 0),
                             r, noise)]

(***************************************************************************)
(* Bounds                                                                  *)
(***************************************************************************)
\* Random tapes a request may draw its bytes from.  The draws of one tape
\* differ from each other and from the draws of every other tape; two
\* requests that read the same tape are returned the same bytes.
NumTapes == 2
\* Values a single randomBytes call may return in the function harness.
MaxRandom == 1
\* Inserts the table is sent (the serial sequence grows with each).
MaxInserts == 3
\* Handlers that await their storage statement at the same time.
MaxInFlight == 2
\* How often the form of the verifying page is submitted.
MaxSubmits == 2

Tapes == 1..NumTapes
RandomValues == 0..MaxRandom

\* The i-th randomBytes call of a request that reads the given tape.
randomBytes(tape, i) == 100 * tape + i

(***************************************************************************)
(* Inputs                                                                  *)
(***************************************************************************)
AmjadMasad == <<"A", "m", "j", "a", "d", " ", "M", "a", "s", "a", "d">>
PassportA == <<"A", "1", "2", "3", "4", "5", "6", "7">>
PassportB == <<"B", "7", "6", "5", "4">>
PassportShort == <<"A", "1", "2", "3">>
Date2030 == <<"2", "0", "3", "0", "-", "0", "1", "-", "0", "1">>
DateShort == <<"2", "0", "3", "0", "-", "1", "-", "1">>
Code1234 == <<"1", "2", "3", "4">>
Code123 == <<"1", "2", "3">>

\* createHash('sha256').update(passportId).digest('hex'), tabulated for the
\* passport identifiers of the model.
SHA256Hex(passportId) ==
    CASE passportId = PassportA ->
             "358100c210df061db1f9a7a8945fa3140e169ddf67f7005c57c007647753e100"
      [] passportId = PassportB ->
             "bdb66eb868712936c78fe8a7a628791bede9de23fabe8d8b0b0e6d652961dacd"
      [] passportId = PassportShort ->
             "44b6e7cc9a53c0a1cd5cfb7e99eb9c5ec6750f5081918177ee0bf6e0b9c4456b"

\* SHA-256 of "Z0000000", an identifier nobody registers.
UnknownHash == "4b7cd8da1f19ffce36d97c9886222025f3c531382746704285a4664553e5beaa"

BundleKeys == {"fullName", "age", "expiryDate", "verificationCode"}

DemoIdentity ==
    [fullName |-> MkString(AmjadMasad), age |-> MkNumber(35),
     passportId |-> MkString(PassportA), expiryDate |-> MkString(Date2030),
     verificationCode |-> MkString(Code1234)]

\* A second identity, every field at the edge of what the schema accepts.
BoundaryIdentity ==
    [fullName |-> MkString(<<"B">>), age |-> MkNumber(18),
     passportId |-> MkString(PassportB), expiryDate |-> MkString(Date2030),
     verificationCode |-> MkString(Code1234)]

\* The bodies of POST /api/identities the server is sent: the two
\* identities, and one the schema refuses.
RegisterBodies ==
    {DemoIdentity, BoundaryIdentity, [DemoIdentity EXCEPT !.age = MkNumber(17)]}

\* The bodies the handler is applied to: the two identities, and the demo
\* identity with one field replaced (18.5 is among the ages).
RegisterInputs ==
    {DemoIdentity, BoundaryIdentity}
    \cup {[DemoIdentity EXCEPT !.fullName = x] : x \in {MkString(<<>>), JSUndefined}}
    \cup {[DemoIdentity EXCEPT !.age = x] :
             x \in {MkNumber(17), MkNumber(36), MkFraction(18, <<"5">>),
                    MkString(<<"3", "5">>)}}
    \cup {[DemoIdentity EXCEPT !.passportId = MkString(PassportShort)]}
    \cup {[DemoIdentity EXCEPT !.expiryDate = MkString(DateShort)]}
    \cup {[DemoIdentity EXCEPT !.verificationCode = MkString(Code123)]}
    \cup {[DemoIdentity EXCEPT !.age = MkNumber(17), !.verificationCode = MkString(Code123)]}

(***************************************************************************)
(* registerIdentitySchema (src/shared/schema.ts)                           *)
(***************************************************************************)
\* /^\d{4}-\d{2}-\d{2}$/
MatchesDateRegex(s) ==
    /\ Len(s) = 10
    /\ \A i \in {1, 2, 3, 4, 6, 7, 9, 10} : IsDigit(s[i])
    /\ s[5] = "-"
    /\ s[8] = "-"

\* The message of zod's invalid_type issue.
InvalidTypeMessage(expected, received) ==
    IF received = "undefined" THEN "Required"
    ELSE CASE expected = "string" /\ received = "number" -> "Expected string, received number"
           [] expected = "string" /\ received = "boolean" -> "Expected string, received boolean"
           [] expected = "string" /\ received = "null" -> "Expected string, received null"
           [] expected = "number" /\ received = "string" -> "Expected number, received string"
           [] expected = "number" /\ received = "boolean" -> "Expected number, received boolean"
           [] expected = "number" /\ received = "null" -> "Expected number, received null"

\* One key of the schema: the type check first, then the refinement.
FieldIssue(input, key, expected, refused, message) ==
    IF input[key].t # expected
    THEN <<[path |-> key, message |-> InvalidTypeMessage(expected, input[key].t)]>>
    ELSE IF refused THEN <<[path |-> key, message |-> message]>>
    ELSE <<>>

\* The issues zod reports for a body, in the order of the schema's keys.
registerIdentitySchemaIssues(input) ==
    FieldIssue(input, "fullName", "string", Len(input.fullName.s) < 1, "Name is required")
    \o FieldIssue(input, "age", "number", input.age.n < 18, "Must be 18+")
    \o FieldIssue(input, "passportId", "string", Len(input.passportId.s) < 5,
                  "Invalid Passport ID")
    \o FieldIssue(input, "expiryDate", "string", ~MatchesDateRegex(input.expiryDate.s),
                  "Format: YYYY-MM-DD")
    \o FieldIssue(input, "verificationCode", "string", Len(input.verificationCode.s) < 4,
                  "Code required")

(***************************************************************************)
(* DatabaseStorage (src/unnamed/part_001) over the identities table        *)
(***************************************************************************)
\* passport_hash is declared unique (schema.ts line 8).
UniqueViolation(table, passportHash) ==
    \E i \in 1..Len(table) : table[i].passportHash = passportHash

NoRow == [id |-> 0, passportHash |-> "", encryptedData |-> <<>>]

\* An insert into a table whose passport_hash column is not unique.
createIdentityNoUnique(table, seq, identity) ==
    LET row == [id |-> seq + 1, passportHash |-> identity.passportHash,
                encryptedData |-> identity.encryptedData]
    IN  [ok |-> TRUE, rows |-> Append(table, row), row |-> row]

\* An insert that overwrites the bundle of the row that holds the key
\* (ON CONFLICT DO UPDATE).
createIdentityUpsert(table, seq, identity) ==
    IF UniqueViolation(table, identity.passportHash)
    THEN LET i == CHOOSE j \in 1..Len(table) :
                      table[j].passportHash = identity.passportHash
             row == [table[i] EXCEPT !.encryptedData = identity.encryptedData]
         IN  [ok |-> TRUE, rows |-> [table EXCEPT ![i] = row], row |-> row]
    ELSE createIdentityNoUnique(table, seq, identity)

\* createIdentity(identity): one INSERT ... RETURNING.  The serial id is
\* taken from the sequence before the unique constraint is checked, so a
\* refused insert uses up an id.  [ok, rows, row]; ok = FALSE is the
\* driver's unique-violation error.
createIdentity(table, seq, identity) ==
    IF UniqueViolation(table, identity.passportHash)
    THEN [ok |-> FALSE, rows |-> table, row |-> NoRow]
    ELSE LET row == [id |-> seq + 1, passportHash |-> identity.passportHash,
                     encryptedData |-> identity.encryptedData]
         IN  [ok |-> TRUE, rows |-> Append(table, row), row |-> row]

\* A select without its where clause: the first row of the table.
getIdentityByHashAnyRow(table, passportHash) ==
    IF table = <<>> THEN [found |-> FALSE, row |-> NoRow]
    ELSE [found |-> TRUE, row |-> table[1]]

\* getIdentityByHash(passportHash): the first row selected, or undefined.
getIdentityByHash(table, passportHash) ==
    LET hits == {i \in 1..Len(table) : table[i].passportHash = passportHash}
    IN  IF hits = {} THEN [found |-> FALSE, row |-> NoRow]
        ELSE [found |-> TRUE, row |-> table[CHOOSE i \in hits : \A j \in hits : i <= j]]

(***************************************************************************)
(* Requests and responses                                                  *)
(***************************************************************************)
NoInput ==
    [fullName |-> JSUndefined, age |-> JSUndefined, passportId |-> JSUndefined,
     expiryDate |-> JSUndefined, verificationCode |-> JSUndefined]

NoCiphertext == EnvelopeOther("invalid")

Response(status, message) ==
    [status |-> status, message |-> message, issues |-> <<>>, id |-> 0,
     encryptedResult |-> NoCiphertext]

NoResponse == Response(0, "")

NotFound == [found |-> FALSE, row |-> NoRow]

\* A request and its response.  A handler awaits from the moment its storage
\* statement has run until it resumes and sends the response; other
\* requests are taken up meanwhile.  For a register request that awaits, the
\* response is the one the outcome of the INSERT determines and the handler
\* will send; for a verify request that awaits, identity is what the SELECT
\* returned and the response is not yet made.
Handler(kind, input, passportHash, encryptedQuery, identity, response) ==
    [kind |-> kind, input |-> input, passportHash |-> passportHash,
     encryptedQuery |-> encryptedQuery, identity |-> identity,
     status |-> response.status, message |-> response.message,
     issues |-> response.issues, id |-> response.id,
     encryptedResult |-> response.encryptedResult]

NoHandler == Handler("none", NoInput, "", <<>>, NotFound, NoResponse)

RegisterRequest(input, response) ==
    Handler("register", input, "", <<>>, NotFound, response)

VerifyRequest(passportHash, encryptedQuery, identity, response) ==
    Handler("verify", NoInput, passportHash, encryptedQuery, identity, response)

\* What `call` holds: the table and the sequence the handler finds, the
\* request with its response, and the table and the sequence it leaves.
CallIdle ==
    [pc |-> "idle", table |-> <<>>, seq |-> 0, h |-> NoHandler, rows |-> <<>>,
     idSeq |-> 0]

(***************************************************************************)
(* POST /api/identities (src/unnamed/part_000 lines 16-42)                 *)
(***************************************************************************)
\* A bundle whose age is encrypted as the text of the number, as
\* encrypt(String(input.age)) would.
EncryptBundleAgeAsString(fullName, age, expiryDate, verificationCode, tape) ==
    [k \in BundleKeys |->
        CASE k = "fullName" -> encrypt(fullName, randomBytes(tape, 1), randomBytes(tape, 2))
          [] k = "age" -> encrypt(MkString(NumberText(age)), randomBytes(tape, 3),
                                  randomBytes(tape, 4))
          [] k = "expiryDate" ->
                 encrypt(expiryDate, randomBytes(tape, 5), randomBytes(tape, 6))
          [] k = "verificationCode" ->
                 encrypt(verificationCode, randomBytes(tape, 7), randomBytes(tape, 8))]

\* The bundle written at registration and by seedDatabase: the four fields,
\* each encrypted with its own two draws.
EncryptBundle(fullName, age, expiryDate, verificationCode, tape) ==
    [k \in BundleKeys |->
        CASE k = "fullName" -> encrypt(fullName, randomBytes(tape, 1), randomBytes(tape, 2))
          [] k = "age" -> encrypt(age, randomBytes(tape, 3), randomBytes(tape, 4))
          [] k = "expiryDate" ->
                 encrypt(expiryDate, randomBytes(tape, 5), randomBytes(tape, 6))
          [] k = "verificationCode" ->
                 encrypt(verificationCode, randomBytes(tape, 7), randomBytes(tape, 8))]

\* The handler: [response, rows, inserted]; inserted tells whether the
\* table was sent an INSERT.
\* The response of the catch to the ZodError that parse throws (lines 18
\* and 40).
Refused(input) ==
    [Response(400, "ZodError") EXCEPT !.issues = registerIdentitySchemaIssues(input)]

registerHandler(table, seq, input, tape) ==
    LET issues == registerIdentitySchemaIssues(input)
    IN  IF issues # <<>>
        THEN [response |-> Refused(input), rows |-> table, inserted |-> FALSE]
        ELSE LET hash == SHA256Hex(input.passportId.s)
                 encryptedData == EncryptBundle(input.fullName, input.age,
                                                input.expiryDate,
                                                input.verificationCode, tape)
                 created == createIdentity(table, seq,
                                [passportHash |-> hash, encryptedData |-> encryptedData])
             IN  IF created.ok
                 THEN [response |-> [Response(201, "Identity Issued")
                                        EXCEPT !.id = created.row.id],
                       rows |-> created.rows, inserted |-> TRUE]
                 ELSE [response |-> Response(400, "duplicate key value violates unique constraint"),
                       rows |-> created.rows, inserted |-> TRUE]

(***************************************************************************)
(* POST /api/verify (src/unnamed/part_000 lines 45-97)                     *)
(***************************************************************************)
\* Properties every object inherits from Object.prototype: storedData[key]
\* finds a function there (for __proto__ the prototype itself) when the
\* bundle has no such key of its own.
ObjectPrototypeKeys ==
    {"constructor", "__defineGetter__", "__defineSetter__", "hasOwnProperty",
     "__lookupGetter__", "__lookupSetter__", "isPrototypeOf", "propertyIsEnumerable",
     "toString", "valueOf", "__proto__", "toLocaleString"}

\* storedData[key] and its truthiness.  A function or an object is truthy,
\* and the text JSON.parse makes of it is no JSON.
StoredLookup(storedData, key) ==
    IF key \in DOMAIN storedData THEN [truthy |-> TRUE, value |-> storedData[key]]
    ELSE IF key \in ObjectPrototypeKeys THEN [truthy |-> TRUE, value |-> EnvelopeOther("invalid")]
    ELSE [truthy |-> FALSE, value |-> NoCiphertext]

\* The for loop over Object.entries(encryptedQuery): entries is what is left
\* of the entries, overallMatch the flag so far, drawn the number of
\* randomBytes calls so far.  [ok, overallMatch, drawn]; ok = FALSE when
\* homomorphicEquality threw.
RECURSIVE CompareEntries(_, _, _, _, _)
CompareEntries(entries, storedData, overallMatch, tape, drawn) ==
    IF entries = <<>> THEN [ok |-> TRUE, overallMatch |-> overallMatch, drawn |-> drawn]
    ELSE LET key == Head(entries)[1]
             encQueryVal == Head(entries)[2]
             stored == StoredLookup(storedData, key)
         IN  IF stored.truthy
             THEN LET encMatch == homomorphicEquality(encQueryVal, stored.value,
                                      randomBytes(tape, drawn + 1),
                                      randomBytes(tape, drawn + 2))
                      isMatch == decrypt(encMatch.ct)
                  IN  IF ~encMatch.ok \/ ~isMatch.ok
                      THEN [ok |-> FALSE, overallMatch |-> overallMatch, drawn |-> drawn]
                      ELSE CompareEntries(Tail(entries), storedData,
                               IF StrictEquals(isMatch.val, MkNumber(0)) THEN 0
                               ELSE overallMatch,
                               tape, drawn + 2)
             ELSE CompareEntries(Tail(entries), storedData, 0, tape, drawn)

\* The keys a query may carry, in the order the request body lists them.
QueryKeyOrder ==
    <<"fullName", "age", "expiryDate", "verificationCode", "nationality", "toString">>

\* Object.entries(encryptedQuery).
RECURSIVE EntriesFrom(_, _)
EntriesFrom(encryptedQuery, i) ==
    IF i > Len(QueryKeyOrder) THEN <<>>
    ELSE IF QueryKeyOrder[i] \in DOMAIN encryptedQuery
         THEN <<<<QueryKeyOrder[i], encryptedQuery[QueryKeyOrder[i]]>>>>
                  \o EntriesFrom(encryptedQuery, i + 1)
         ELSE EntriesFrom(encryptedQuery, i + 1)

ObjectEntries(encryptedQuery) == EntriesFrom(encryptedQuery, 1)

\* The handler from its await on: the response, given what
\* storage.getIdentityByHash returned.
IdentityNotFound == Response(404, "Identity not found")

verifyHandler(identity, encryptedQuery, tape) ==
    IF ~identity.found THEN IdentityNotFound
    ELSE LET storedData == identity.row.encryptedData
             loop == CompareEntries(ObjectEntries(encryptedQuery), storedData, 1,
                                    tape, 0)
         IN  IF ~loop.ok THEN Response(400, "Decryption Failed")
             ELSE [Response(200, "") EXCEPT !.encryptedResult =
                      encrypt(MkNumber(loop.overallMatch),
                              randomBytes(tape, loop.drawn + 1),
                              randomBytes(tape, loop.drawn + 2))]

(***************************************************************************)
(* seedDatabase (src/unnamed/part_000 lines 105-130)                       *)
(***************************************************************************)
SeedHash == SHA256Hex(PassportA)

\* The insert of the demo identity, once the read found nothing.
seedInsert(table, seq, tape) ==
    createIdentity(table, seq,
        [passportHash |-> SeedHash,
         encryptedData |-> EncryptBundle(MkString(AmjadMasad), MkNumber(35),
                                         MkString(Date2030), MkString(Code1234), tape)])

\* Tables a handler is applied to: the empty one and the seeded one.
HarnessTables == {<<>>} \cup {seedInsert(<<>>, 0, tape).rows : tape \in Tapes}

(***************************************************************************)
(* Ciphertexts a client may send                                           *)
(***************************************************************************)
\* mockEncrypt(val) (part_002 lines 60-67): r and noise stand for the two
\* Math.random() strings.  [ok, ct]; ok = FALSE when btoa throws.
mockEncrypt(val, r, noise) ==
    LET payload == Btoa(JSONStringifyPayload(val, r))
    IN  [ok |-> payload.ok,
         ct |-> IF payload.ok THEN Envelope(SchemeTag, payload.data, noise)
                ELSE NoCiphertext]

\* mockDecrypt(ctStr) (part_002 lines 95-103): the value of v, undefined
\* when the payload has none, null when anything throws.  The type tag is
\* not looked at.
mockDecrypt(ct) ==
    IF ct.form # "object" THEN JSNull
    ELSE LET payload == Atob(ct.data)
         IN  IF ~payload.ok THEN JSNull
             ELSE LET json == JSONParsePayloadV(payload.text)
                  IN  IF json.ok THEN json.val ELSE JSNull

\* An envelope as the client builds it, with two random strings of its own.
ClientEncrypt(value) == mockEncrypt(value, 7, 9).ct

NotJSON == EnvelopeOther("invalid")                       \* not-json
JSONNullEnvelope == EnvelopeOther("null")                 \* null
JSONPrimitiveEnvelope == EnvelopeOther("primitive")       \* 5
WrongTag ==                                               \* "type":"AES_CT"
    Envelope("AES_CT", Base64Encode(JSONStringifyPayload(MkNumber(35), 7)), 9)
NoTag ==                                                  \* no "type" key
    Envelope("absent", Base64Encode(JSONStringifyPayload(MkNumber(35), 7)), 9)
DataNotString == Envelope(SchemeTag, DataOther("number"), 9)  \* "data":5
DataAbsent == Envelope(SchemeTag, DataOther("absent"), 9)     \* no "data" key
BadPayload == Envelope(SchemeTag, Base64Encode(PayloadOther("invalid")), 9)
NullPayload == Envelope(SchemeTag, Base64Encode(PayloadOther("null")), 9)
PrimitivePayload == Envelope(SchemeTag, Base64Encode(PayloadOther("primitive")), 9)
NoValuePayload ==                                         \* payload {"r":"07"}
    Envelope(SchemeTag, Base64Encode(PayloadObject(FALSE, <<>>, 7)), 9)
BadValuePayload ==                                        \* payload {"v":03,"r":"07"}
    Envelope(SchemeTag, Base64Encode(PayloadObject(TRUE, <<"0", "3">>, 7)), 9)

\* The ciphertexts tried under each key of a query.
QueryCiphertexts(key) ==
    CASE key = "fullName" -> {ClientEncrypt(MkString(AmjadMasad))}
      [] key = "age" ->
             {ClientEncrypt(MkNumber(35)), ClientEncrypt(MkNumber(36)),
              ClientEncrypt(MkString(<<"3", "5">>)), NotJSON, WrongTag, BadPayload,
              NoValuePayload}
      [] key = "expiryDate" -> {ClientEncrypt(MkString(Date2030))}
      [] key = "verificationCode" -> {ClientEncrypt(MkString(Code1234))}
      [] key = "nationality" -> {ClientEncrypt(MkString(<<"S", "A">>)), NotJSON}
      [] key = "toString" -> {ClientEncrypt(MkString(<<"x">>))}

\* The query the verifying page builds for the demo identity (part_002
\* lines 69-74): its four fields, as registered.
DemoQuery ==
    [k \in BundleKeys |->
        CASE k = "fullName" -> ClientEncrypt(MkString(AmjadMasad))
          [] k = "age" -> ClientEncrypt(MkNumber(35))
          [] k = "expiryDate" -> ClientEncrypt(MkString(Date2030))
          [] k = "verificationCode" -> ClientEncrypt(MkString(Code1234))]

\* A query and the queries that differ from it under one key, which is
\* given one of its ciphertexts.
OneKeyChanged(q) ==
    {q} \cup UNION {{(key :> c) @@ q : c \in QueryCiphertexts(key)} :
                       key \in {"fullName", "age", "nationality", "toString"}}

\* Bodies of POST /api/verify: the empty query, the demo query, and each of
\* the two with one key changed.
Queries == OneKeyChanged(<<>>) \cup OneKeyChanged(DemoQuery)

QueryHashes == {SHA256Hex(PassportA), SHA256Hex(PassportB), UnknownHash}

\* The requests of POST /api/verify the server is sent: the demo query for
\* the key of the demo identity, and the empty query for a key nobody
\* registers.
VerifyRequests ==
    {[passportHash |-> SHA256Hex(PassportA), encryptedQuery |-> DemoQuery],
     [passportHash |-> UnknownHash, encryptedQuery |-> <<>>]}

\* The requests the handler is applied to.
HarnessRequests ==
    {[passportHash |-> h, encryptedQuery |-> q] : h \in QueryHashes, q \in Queries}

(***************************************************************************)
(* The function harness: FHESimulator applied to given values              *)
(***************************************************************************)
HarnessStrings ==
    {<<>>, <<"3", "5">>, <<"0">>, <<"1">>, <<" ", "3", "5">>, <<"-", "5">>, AmjadMasad,
     <<"a", DQuote, "b">>, <<BSlash>>, <<"n", "u", "l", "l">>,
     <<"J", "o", "s", EAcute>>, <<Meem>>}
HarnessIntegers == {0, 1, 35, 36, 0 - 5, 1234}
HarnessValues ==
    {MkString(x) : x \in HarnessStrings} \cup {MkNumber(x) : x \in HarnessIntegers}

\* Envelopes handed to decrypt directly: every malformed kind, and
\* well-formed ones that carry a value of any JSON scalar type.
HarnessCiphertexts ==
    {NotJSON, JSONNullEnvelope, JSONPrimitiveEnvelope, WrongTag, NoTag, DataNotString,
     DataAbsent, BadPayload, NullPayload, PrimitivePayload, NoValuePayload,
     BadValuePayload}
    \cup {ClientEncrypt(v) : v \in HarnessValues \cup {JSNull, MkBoolean(TRUE)}}

NoResult == [ok |-> FALSE, val |-> JSUndefined]

\* r1, n1 and r2, n2 are what randomBytes returned to the two encrypt calls.
FheIdle ==
    [pc |-> "idle", a |-> JSUndefined, b |-> JSUndefined, input |-> NoCiphertext,
     r1 |-> 0, n1 |-> 0, r2 |-> 0, n2 |-> 0,
     ca |-> NoCiphertext, cb |-> NoCiphertext, ceq |-> NoCiphertext, out |-> NoResult]

(***************************************************************************)
(* VerifyIdentity.onSubmit (src/unnamed/part_002 lines 42-119)             *)
(***************************************************************************)
\* The i-th number Math.random() returns to the mockEncrypt calls of one
\* invocation.
mathRandom(tape, i) == 100 * tape + i

\* Identities with a name outside ASCII: e-acute is below U+0100, meem above.
JoseIdentity ==
    [BoundaryIdentity EXCEPT !.fullName = MkString(<<"J", "o", "s", EAcute>>)]
MeemIdentity == [BoundaryIdentity EXCEPT !.fullName = MkString(<<Meem>>)]

\* The identities registered before the page is used, and what the user
\* enters in the form: one of them, or the demo identity with another age.
\* The form's resolver is registerIdentitySchema, so onSubmit is only
\* called with data the schema accepts.
PageIdentities == {DemoIdentity, JoseIdentity, MeemIdentity}
PageForms == PageIdentities \cup {[DemoIdentity EXCEPT !.age = MkNumber(36)]}

\* The table after POST /api/identities has registered one identity.
PageTables ==
    {registerHandler(<<>>, 0, identity, tape).rows :
        identity \in PageIdentities, tape \in Tapes}

\* The state of the component: result ("null" is null), the kinds of the log
\* lines, the invocations of onSubmit that have not ended, the number of
\* submits so far, and the invocation whose mutateAsync call is the latest
\* (0: none yet).
PageIdle == [result |-> "null", logs |-> <<>>, runs |-> {}, submits |-> 0, mutation |-> 0]

\* One invocation of onSubmit: its number, where it stands, its argument and
\* its locals, and the handler of its request on the server.
Run(n, pc, data, passportHash, encryptedQuery, h, response) ==
    [n |-> n, pc |-> pc, data |-> data, passportHash |-> passportHash,
     encryptedQuery |-> encryptedQuery, h |-> h, response |-> response]

\* encryptedQuery (lines 69-74): mockEncrypt of the four fields in the order
\* written, each with two numbers of its own; data.age is a number, which
\* Number() returns as it is.  ok = FALSE when a mockEncrypt throws.
PageQuery(data, tape) ==
    LET fullName == mockEncrypt(data.fullName, mathRandom(tape, 1), mathRandom(tape, 2))
        age == mockEncrypt(data.age, mathRandom(tape, 3), mathRandom(tape, 4))
        expiryDate ==
            mockEncrypt(data.expiryDate, mathRandom(tape, 5), mathRandom(tape, 6))
        verificationCode ==
            mockEncrypt(data.verificationCode, mathRandom(tape, 7), mathRandom(tape, 8))
    IN  [ok |-> fullName.ok /\ age.ok /\ expiryDate.ok /\ verificationCode.ok,
         query |-> [k \in BundleKeys |->
                       CASE k = "fullName" -> fullName.ct
                         [] k = "age" -> age.ct
                         [] k = "expiryDate" -> expiryDate.ct
                         [] k = "verificationCode" -> verificationCode.ct]]

\* The invocation goes on to its next await, having logged lines.
PageGoesOn(run, next, lines) ==
    [page EXCEPT !.runs = (page.runs \ {run}) \cup {next},
                 !.logs = page.logs \o lines]

\* The invocation ends with the result given, having logged lines.
PageEnds(run, result, lines) ==
    [page EXCEPT !.runs = page.runs \ {run}, !.result = result,
                 !.logs = page.logs \o lines]

\* The catch of onSubmit (lines 115-118), after the lines logged in the try.
PageCaught(run, lines) == PageEnds(run, "failure", lines \o <<"info">>)

\* isPending of useVerifyIdentity: the latest mutateAsync call has not
\* settled.  The hook is not among the sources; this is useMutation of
\* @tanstack/react-query, which follows the latest call.
isPending ==
    \E run \in page.runs :
        run.n = page.mutation /\ run.pc \in {"posted", "selected", "verified"}

\* The response a handler sent.
ResponseOf(h) ==
    [status |-> h.status, message |-> h.message, issues |-> h.issues, id |-> h.id,
     encryptedResult |-> h.encryptedResult]

(***************************************************************************)
(* The server: Init and the actions                                        *)
(***************************************************************************)
Init ==
    /\ rows = <<>>
    /\ idSeq = 0
    /\ seedPc = "start"
    /\ pending = EmptyBag
    /\ sent = NoHandler
    /\ fhe = FheIdle
    /\ call = CallIdle
    /\ page = PageIdle

One(h) == SetToBag({h})

\* The tapes an INSERT under passportHash is tried with.  The bytes drawn for
\* a bundle that the table refuses are stored nowhere and sent nowhere, so
\* where the key is held one tape stands for all of them.
TapesFor(table, passportHash) ==
    IF UniqueViolation(table, passportHash) THEN {CHOOSE tape \in Tapes : TRUE}
    ELSE Tapes

\* POST /api/identities up to the await of storage.createIdentity: the body
\* is parsed, hashed and encrypted and the INSERT runs.  A body the schema
\* refuses is answered in the same turn.  The request is taken up whatever
\* else awaits.
Register ==
    /\ \E input \in RegisterBodies :
          IF registerIdentitySchemaIssues(input) # <<>>
          THEN /\ sent' = RegisterRequest(input, Refused(input))
               /\ UNCHANGED <<rows, idSeq, pending>>
          ELSE /\ idSeq < MaxInserts
               /\ BagCardinality(pending) < MaxInFlight
               /\ \E tape \in TapesFor(rows, SHA256Hex(input.passportId.s)) :
                     LET done == registerHandler(rows, idSeq, input, tape)
                     IN  /\ rows' = done.rows
                         /\ idSeq' = idSeq + 1
                         /\ pending' = pending (+) One(RegisterRequest(input,
                                                           done.response))
               /\ sent' = NoHandler
    /\ UNCHANGED <<seedPc, fhe, call, page>>

\* POST /api/identities from the await on, for any of the handlers that
\* await: the response is sent (line 38, or line 40 when the INSERT threw).
RegisterRespond ==
    /\ \E h \in BagToSet(pending) :
          /\ h.kind = "register"
          /\ pending' = pending (-) One(h)
          /\ sent' = h
    /\ UNCHANGED <<rows, idSeq, seedPc, fhe, call, page>>

\* POST /api/verify up to the await of storage.getIdentityByHash: the
\* SELECT runs.  The request is taken up whatever else awaits.
Verify ==
    /\ BagCardinality(pending) < MaxInFlight
    /\ \E request \in VerifyRequests :
          pending' = pending (+) One(VerifyRequest(request.passportHash,
                                         request.encryptedQuery,
                                         getIdentityByHash(rows, request.passportHash),
                                         NoResponse))
    /\ sent' = NoHandler
    /\ UNCHANGED <<rows, idSeq, seedPc, fhe, call, page>>

\* POST /api/verify from the await on, for any of the handlers that await:
\* the comparison and the response.
VerifyRespond ==
    /\ \E h \in BagToSet(pending) :
          /\ h.kind = "verify"
          /\ pending' = pending (-) One(h)
          /\ IF ~h.identity.found
             THEN sent' = VerifyRequest(h.passportHash, h.encryptedQuery, h.identity,
                                        IdentityNotFound)
             ELSE \E tape \in Tapes :
                     sent' = VerifyRequest(h.passportHash, h.encryptedQuery, h.identity,
                                 verifyHandler(h.identity, h.encryptedQuery, tape))
    /\ UNCHANGED <<rows, idSeq, seedPc, fhe, call, page>>

\* seedDatabase up to its first await: the SELECT for the demo key runs.
\* seedPc tells what it returned: "existing" a row, "insert" none.
SeedCheck ==
    /\ seedPc = "start"
    /\ seedPc' = IF getIdentityByHash(rows, SeedHash).found THEN "existing" ELSE "insert"
    /\ sent' = NoHandler
    /\ UNCHANGED <<rows, idSeq, pending, fhe, call, page>>

\* seedDatabase from the read, which found nothing, to its second await: the
\* bundle is encrypted and the INSERT runs.  seedPc tells its outcome:
\* "inserted", or "refused" when the key was registered in between.
SeedInsert ==
    /\ seedPc = "insert"
    /\ idSeq < MaxInserts
    /\ \E tape \in TapesFor(rows, SeedHash) :
          LET created == seedInsert(rows, idSeq, tape)
          IN  /\ rows' = created.rows
              /\ seedPc' = IF created.ok THEN "inserted" ELSE "refused"
    /\ idSeq' = idSeq + 1
    /\ sent' = NoHandler
    /\ UNCHANGED <<pending, fhe, call, page>>

\* seedDatabase resumes and ends: it returns when the read found the row or
\* the INSERT went through, and throws into registerRoutes when the INSERT
\* was refused.
SeedReturn ==
    /\ seedPc \in {"existing", "inserted", "refused"}
    /\ seedPc' = IF seedPc = "refused" THEN "failed" ELSE "done"
    /\ sent' = NoHandler
    /\ UNCHANGED <<rows, idSeq, pending, fhe, call, page>>

\* The process is started again: registerRoutes runs, and with it
\* seedDatabase, against the table as the last run left it.  The requests
\* whose handlers were awaiting get no response.
Restart ==
    /\ seedPc \in {"done", "failed"}
    /\ seedPc' = "start"
    /\ pending' = EmptyBag
    /\ sent' = NoHandler
    /\ UNCHANGED <<rows, idSeq, fhe, call, page>>

Next ==
    \/ Register
    \/ RegisterRespond
    \/ Verify
    \/ VerifyRespond
    \/ SeedCheck
    \/ SeedInsert
    \/ SeedReturn
    \/ Restart

Spec == Init /\ [][Next]_vars

(***************************************************************************)
(* The harness: Init and the actions                                       *)
(***************************************************************************)
InitFhe ==
    /\ rows = <<>>
    /\ idSeq = 0
    /\ seedPc = "start"
    /\ pending = EmptyBag
    /\ sent = NoHandler
    /\ \/ /\ call = CallIdle
          /\ page = PageIdle
          /\ \E a \in HarnessValues, b \in HarnessValues :
                fhe = [FheIdle EXCEPT !.pc = "values", !.a = a, !.b = b]
       \/ /\ call = CallIdle
          /\ page = PageIdle
          /\ \E c \in HarnessCiphertexts :
                fhe = [FheIdle EXCEPT !.pc = "ciphertext", !.input = c]
       \/ /\ fhe = FheIdle
          /\ page = PageIdle
          /\ \E table \in HarnessTables, input \in RegisterInputs :
                call = [CallIdle EXCEPT !.pc = "body", !.table = table,
                                        !.seq = Len(table), !.rows = table,
                                        !.idSeq = Len(table),
                                        !.h = RegisterRequest(input, NoResponse)]
       \/ /\ fhe = FheIdle
          /\ page = PageIdle
          /\ \E table \in HarnessTables, request \in HarnessRequests :
                call = [CallIdle EXCEPT !.pc = "query", !.table = table,
                                        !.seq = Len(table), !.rows = table,
                                        !.idSeq = Len(table),
                                        !.h = VerifyRequest(request.passportHash,
                                                  request.encryptedQuery, NotFound,
                                                  NoResponse)]

\* encrypt(a) and encrypt(b), each with its own draws.
FheEncrypt ==
    /\ fhe.pc = "values"
    /\ \E r1 \in RandomValues, n1 \in RandomValues, r2 \in RandomValues, n2 \in RandomValues :
          fhe' = [fhe EXCEPT !.pc = "encrypted",
                             !.r1 = r1, !.n1 = n1, !.r2 = r2, !.n2 = n2,
                             !.ca = encrypt(fhe.a, r1, n1),
                             !.cb = encrypt(fhe.b, r2, n2)]
    /\ UNCHANGED <<server, call, page>>

\* decrypt(encrypt(a)).
FheRoundTrip ==
    /\ fhe.pc = "encrypted"
    /\ fhe' = [fhe EXCEPT !.pc = "decrypted", !.out = decrypt(fhe.ca)]
    /\ UNCHANGED <<server, call, page>>

\* decrypt(homomorphicEquality(encrypt(a), encrypt(b))).
FheEquality ==
    /\ fhe.pc = "encrypted"
    /\ \E r \in RandomValues, n \in RandomValues :
          LET eq == homomorphicEquality(fhe.ca, fhe.cb, r, n)
          IN  fhe' = [fhe EXCEPT !.pc = "compared", !.ceq = eq.ct,
                                 !.out = IF eq.ok THEN decrypt(eq.ct) ELSE NoResult]
    /\ UNCHANGED <<server, call, page>>

\* decrypt of a given envelope.
FheDecrypt ==
    /\ fhe.pc = "ciphertext"
    /\ fhe' = [fhe EXCEPT !.pc = "opened", !.out = decrypt(fhe.input)]
    /\ UNCHANGED <<server, call, page>>

\* decrypt(mockEncrypt(a)): the server opens an envelope the client built.
\* When btoa throws the client has no envelope (ca stays NoCiphertext).
FheClientEncrypt ==
    /\ fhe.pc = "values"
    /\ \E r \in RandomValues, n \in RandomValues :
          LET built == mockEncrypt(fhe.a, r, n)
          IN  fhe' = [fhe EXCEPT !.pc = "clientEncrypted", !.r1 = r, !.n1 = n,
                                 !.ca = built.ct,
                                 !.out = IF built.ok THEN decrypt(built.ct) ELSE NoResult]
    /\ UNCHANGED <<server, call, page>>

\* mockDecrypt(encrypt(a)): the client reads an envelope the server built.
FheClientRead ==
    /\ fhe.pc = "encrypted"
    /\ fhe' = [fhe EXCEPT !.pc = "clientRead",
                          !.out = [ok |-> TRUE, val |-> mockDecrypt(fhe.ca)]]
    /\ UNCHANGED <<server, call, page>>

\* The register handler applied to the body, on the table given, up to the
\* await of storage.createIdentity: a body the schema refuses is answered in
\* the same turn; otherwise the INSERT runs and the handler awaits, with the
\* response the outcome of the INSERT determines.
CallRegister ==
    /\ call.pc = "body"
    /\ IF registerIdentitySchemaIssues(call.h.input) # <<>>
       THEN call' = [call EXCEPT !.pc = "registered",
                                 !.h = RegisterRequest(call.h.input,
                                                       Refused(call.h.input))]
       ELSE \E tape \in Tapes :
               LET done == registerHandler(call.table, call.seq, call.h.input, tape)
               IN  call' = [call EXCEPT !.pc = "inserted",
                                        !.h = RegisterRequest(call.h.input,
                                                              done.response),
                                        !.rows = done.rows,
                                        !.idSeq = call.seq + 1]
    /\ UNCHANGED <<server, fhe, page>>

\* The register handler from its await on: it sends the response.
CallRegisterRespond ==
    /\ call.pc = "inserted"
    /\ call' = [call EXCEPT !.pc = "registered"]
    /\ UNCHANGED <<server, fhe, page>>

\* The verify handler applied to the request, on the table given: its SELECT.
CallSelect ==
    /\ call.pc = "query"
    /\ call' = [call EXCEPT !.pc = "selected",
                            !.h = VerifyRequest(call.h.passportHash,
                                      call.h.encryptedQuery,
                                      getIdentityByHash(call.table, call.h.passportHash),
                                      NoResponse)]
    /\ UNCHANGED <<server, fhe, page>>

\* The verify handler from its await on.
CallVerify ==
    /\ call.pc = "selected"
    /\ \E tape \in Tapes :
          call' = [call EXCEPT !.pc = "verified",
                               !.h = VerifyRequest(call.h.passportHash,
                                         call.h.encryptedQuery, call.h.identity,
                                         verifyHandler(call.h.identity,
                                                       call.h.encryptedQuery, tape))]
    /\ UNCHANGED <<server, fhe, page>>

NextFhe ==
    \/ FheEncrypt
    \/ FheRoundTrip
    \/ FheEquality
    \/ FheDecrypt
    \/ FheClientEncrypt
    \/ FheClientRead
    \/ CallRegister
    \/ CallRegisterRespond
    \/ CallSelect
    \/ CallVerify

SpecFhe == InitFhe /\ [][NextFhe]_vars

(***************************************************************************)
(* The verifying page and the server: Init and the actions                 *)
(***************************************************************************)
\* Either the client's and the server's functions are applied to a value, or
\* the page is open on a table that holds one registered identity.
InitPage ==
    /\ rows = <<>>
    /\ idSeq = 0
    /\ seedPc = "start"
    /\ pending = EmptyBag
    /\ sent = NoHandler
    /\ \/ /\ call = CallIdle
          /\ page = PageIdle
          /\ \E a \in HarnessValues :
                fhe = [FheIdle EXCEPT !.pc = "values", !.a = a, !.b = a]
       \/ /\ fhe = FheIdle
          /\ page = PageIdle
          /\ \E table \in PageTables :
                call = [CallIdle EXCEPT !.table = table, !.seq = Len(table),
                                        !.rows = table, !.idSeq = Len(table)]

\* The form of the open page is submitted (the button is disabled while
\* isPending, line 224): onSubmit up to its first timer (lines 43-49).  The
\* result and the log are cleared and the first line is logged.
PageSubmit ==
    /\ fhe.pc = "idle"
    /\ ~isPending
    /\ page.submits < MaxSubmits
    /\ \E data \in PageForms :
          page' = [page EXCEPT !.result = "null", !.logs = <<"info">>,
                               !.submits = page.submits + 1,
                               !.runs = page.runs \cup
                                   {Run(page.submits + 1, "started", data, "", <<>>,
                                        NoHandler, NoResponse)}]
    /\ UNCHANGED <<server, fhe, call>>

\* 'Try Again' on the overlay that shows the result (lines 155 and 175).
PageTryAgain ==
    /\ page.result # "null"
    /\ page' = [page EXCEPT !.result = "null", !.logs = <<>>]
    /\ UNCHANGED <<server, fhe, call>>

\* Lines 51-53: the hash of the passport identifier, then the second timer.
PageHash ==
    /\ \E run \in page.runs :
          /\ run.pc = "started"
          /\ page' = PageGoesOn(run,
                         [run EXCEPT !.pc = "hashed",
                                     !.passportHash = SHA256Hex(run.data.passportId.s)],
                         <<"encrypt">>)
    /\ UNCHANGED <<server, fhe, call>>

\* Lines 56-76: the four fields are encrypted, then the third timer.  When
\* btoa throws, the catch ends the invocation.
PageEncrypt ==
    /\ \E run \in page.runs :
          /\ run.pc = "hashed"
          /\ \E tape \in Tapes :
                LET built == PageQuery(run.data, tape)
                IN  page' = IF built.ok
                            THEN PageGoesOn(run,
                                     [run EXCEPT !.pc = "built",
                                                 !.encryptedQuery = built.query],
                                     <<"encrypt">>)
                            ELSE PageCaught(run, <<"encrypt">>)
    /\ UNCHANGED <<server, fhe, call>>

\* Lines 77-85: mutateAsync sends the request to /api/verify.
PagePost ==
    /\ \E run \in page.runs :
          /\ run.pc = "built"
          /\ page' = [PageGoesOn(run,
                          [run EXCEPT !.pc = "posted",
                                      !.h = VerifyRequest(run.passportHash,
                                                run.encryptedQuery, NotFound,
                                                NoResponse)],
                          <<"info", "network">>)
                         EXCEPT !.mutation = run.n]
    /\ UNCHANGED <<server, fhe, call>>

\* POST /api/verify of the page, up to the await of
\* storage.getIdentityByHash: the SELECT runs.
PageVerify ==
    /\ \E run \in page.runs :
          /\ run.pc = "posted"
          /\ page' = PageGoesOn(run,
                         [run EXCEPT !.pc = "selected",
                                     !.h = VerifyRequest(run.h.passportHash,
                                               run.h.encryptedQuery,
                                               getIdentityByHash(call.table,
                                                                 run.h.passportHash),
                                               NoResponse)],
                         <<>>)
    /\ UNCHANGED <<server, fhe, call>>

\* POST /api/verify of the page from the await on: the response is sent.
PageVerifyRespond ==
    /\ \E run \in page.runs :
          /\ run.pc = "selected"
          /\ \E tape \in IF run.h.identity.found THEN Tapes
                          ELSE {CHOOSE tape \in Tapes : TRUE} :
                page' = PageGoesOn(run,
                            [run EXCEPT !.pc = "verified",
                                        !.h = VerifyRequest(run.h.passportHash,
                                                  run.h.encryptedQuery, run.h.identity,
                                                  verifyHandler(run.h.identity,
                                                      run.h.encryptedQuery, tape))],
                            <<>>)
    /\ UNCHANGED <<server, fhe, call>>

\* Lines 81-88: mutateAsync settles with the response of the handler, then
\* the fourth timer.  The hook useVerifyIdentity is not among the sources: for
\* a response other than 200 it either rejects, which the catch takes, or
\* resolves with the body, which has no encryptedResult.
PageReceive ==
    /\ \E run \in page.runs :
          /\ run.pc = "verified"
          /\ \/ page' = PageGoesOn(run,
                            [run EXCEPT !.pc = "received",
                                        !.response = ResponseOf(run.h)],
                            <<"network">>)
             \/ /\ run.h.status # 200
                /\ page' = PageCaught(run, <<>>)
    /\ UNCHANGED <<server, fhe, call>>

\* Lines 91-92: the head of response.encryptedResult is logged, then the
\* fifth timer.  Where the body has no encryptedResult, substring throws.
PageOpen ==
    /\ \E run \in page.runs :
          /\ run.pc = "received"
          /\ page' = IF run.response.status = 200
                     THEN PageGoesOn(run, [run EXCEPT !.pc = "opened"], <<"decrypt">>)
                     ELSE PageCaught(run, <<>>)
    /\ UNCHANGED <<server, fhe, call>>

\* Lines 95-113: mockDecrypt(response.encryptedResult) === 1 decides the
\* result.
PageDecrypt ==
    /\ \E run \in page.runs :
          /\ run.pc = "opened"
          /\ page' = PageEnds(run,
                         IF StrictEquals(mockDecrypt(run.response.encryptedResult),
                                         MkNumber(1))
                         THEN "success" ELSE "failure",
                         <<"success">>)
    /\ UNCHANGED <<server, fhe, call>>

NextPage ==
    \/ FheEncrypt
    \/ FheClientEncrypt
    \/ FheClientRead
    \/ PageSubmit
    \/ PageTryAgain
    \/ PageHash
    \/ PageEncrypt
    \/ PagePost
    \/ PageVerify
    \/ PageVerifyRespond
    \/ PageReceive
    \/ PageOpen
    \/ PageDecrypt

SpecPage == InitPage /\ [][NextPage]_vars

(***************************************************************************)
(* Properties                                                              *)
(***************************************************************************)
\* A ciphertext is well-formed when it parses as an envelope, carries the
\* scheme tag, and its payload decodes to an object that holds a value.
WellFormed(ct) ==
    /\ ct.form = "object"
    /\ ct.type = SchemeTag
    /\ Base64Decode(ct.data).ok
    /\ Base64Decode(ct.data).text.form = "object"
    /\ Base64Decode(ct.data).text.hasV
    /\ JSONParseValue(Base64Decode(ct.data).text.v).ok

KeyHeld(table, passportHash) ==
    \E i \in 1..Len(table) : table[i].passportHash = passportHash

\* The verify handler was applied where the key is registered: its SELECT
\* returned a row.
VerifiedRegistered == call.pc = "verified" /\ call.h.identity.found

\* C1: for strings and integers a and b,
\* decrypt(homomorphicEquality(encrypt(a), encrypt(b))) is 1 exactly when a
\* and b have the same value and the same type, and 0 otherwise.
EqualitySoundness ==
    fhe.pc = "compared" =>
        /\ fhe.out.ok
        /\ fhe.out.val = MkNumber(IF fhe.a = fhe.b THEN 1 ELSE 0)

\* C2: a verify with an empty query against a registered key ends in an
\* error, never in an encrypted result.
EmptyQueryRejected ==
    (VerifiedRegistered /\ DOMAIN call.h.encryptedQuery = {}) =>
        (call.h.status = 400 /\ call.h.encryptedResult = NoCiphertext)

\* Every queried field is a key of the bundle and its plaintext is the stored
\* plaintext, value and type.
AllFieldsEqual(encryptedQuery, bundle) ==
    \A k \in DOMAIN encryptedQuery :
        /\ k \in DOMAIN bundle
        /\ decrypt(encryptedQuery[k]).val = decrypt(bundle[k]).val

\* C3: a verify with a non-empty query of well-formed ciphertexts against a
\* registered key succeeds, and its result decrypts to 1 exactly when every
\* queried field is stored and equal, and to 0 otherwise.
AggregateCorrect ==
    (/\ VerifiedRegistered
     /\ DOMAIN call.h.encryptedQuery # {}
     /\ \A k \in DOMAIN call.h.encryptedQuery :
           WellFormed(call.h.encryptedQuery[k])) =>
        /\ call.h.status = 200
        /\ decrypt(call.h.encryptedResult).val =
              MkNumber(IF AllFieldsEqual(call.h.encryptedQuery,
                                         call.h.identity.row.encryptedData)
                       THEN 1 ELSE 0)

\* C4: a verify against a registered key whose query holds a malformed
\* ciphertext, under any key, ends in the decryption error.
MalformedSurfaced ==
    (/\ VerifiedRegistered
     /\ \E k \in DOMAIN call.h.encryptedQuery :
           ~WellFormed(call.h.encryptedQuery[k])) =>
        (call.h.status = 400 /\ call.h.message = "Decryption Failed")

\* C5: a verify against a registered key whose query names a field the bundle
\* does not hold, the ciphertexts of the fields it does hold being
\* well-formed, succeeds with a result that decrypts to 0.
MissingFieldIsMismatch ==
    LET bundle == call.h.identity.row.encryptedData
        q == call.h.encryptedQuery
    IN  (/\ VerifiedRegistered
         /\ \E k \in DOMAIN q : k \notin DOMAIN bundle
         /\ \A k \in DOMAIN q : k \in DOMAIN bundle => WellFormed(q[k])) =>
            /\ call.h.status = 200
            /\ decrypt(call.h.encryptedResult).val = MkNumber(0)

NoDuplicateKeys ==
    \A i \in 1..Len(rows) : \A j \in 1..Len(rows) :
        i # j => rows[i].passportHash # rows[j].passportHash

\* Of the register requests under way, at most one per passport identifier
\* has succeeded.
OneSuccessPerKey ==
    \A h1 \in BagToSet(pending) \cup {sent} : \A h2 \in BagToSet(pending) \cup {sent} :
        (/\ h1.kind = "register" /\ h1.status = 201
         /\ h2.kind = "register" /\ h2.status = 201
         /\ h1.input.passportId = h2.input.passportId) =>
            /\ h1 = h2
            /\ CopiesIn(h1, pending) + (IF sent = h1 THEN 1 ELSE 0) = 1

\* A register request whose body passes the schema succeeds exactly when the
\* key is not held at its INSERT, is otherwise refused with the
\* unique-violation error and changes nothing, and leaves the key held once;
\* the response a handler sends when it resumes is the one its INSERT
\* determined.
UniqueRegistration ==
    /\ \A h \in BagToSet(pending' (-) pending) :
          h.kind = "register" =>
             LET hash == SHA256Hex(h.input.passportId.s)
             IN  /\ (h.status = 201) <=> ~KeyHeld(rows, hash)
                 /\ KeyHeld(rows, hash) =>
                       /\ h.status = 400
                       /\ h.message = "duplicate key value violates unique constraint"
                       /\ rows' = rows
                 /\ Cardinality({i \in 1..Len(rows') : rows'[i].passportHash = hash}) = 1
    /\ (sent'.kind = "register" /\ sent'.issues = <<>>) =>
          /\ BagIn(sent', pending)
          /\ pending' = pending (-) One(sent')

\* C6: in every interleaving of register requests (and of the seeding) no two
\* rows hold the same lookup key; of the requests that reach the table with
\* one passport identifier the one that finds the key free succeeds and every
\* other is refused as a duplicate, in whatever order the responses are sent.
UniquenessUnderInterleaving ==
    []NoDuplicateKeys /\ []OneSuccessPerKey /\ [][UniqueRegistration]_vars

\* Two register requests for one passport identifier under way: the second
\* is answered as a duplicate while the first, which succeeded, still awaits.
UniquenessWitness ==
    /\ sent.kind = "register"
    /\ sent.status = 400
    /\ sent.issues = <<>>
    /\ \E h \in BagToSet(pending) :
          /\ h.kind = "register"
          /\ h.status = 201
          /\ h.input.passportId = sent.input.passportId

\* C7: a row, once in the table, stays there with the lookup key and the
\* bundle it was created with, whatever is served next; the steps of a
\* verify leave the table as it was.
RecordLifecycle ==
    [][/\ \A i \in 1..Len(rows) : i <= Len(rows') /\ rows'[i] = rows[i]
       /\ (\/ \E h \in BagToSet(pending' (-) pending) : h.kind = "verify"
           \/ sent'.kind = "verify") =>
              (rows' = rows /\ idSeq' = idSeq)]_vars

\* A verify answered while a register that has inserted the second row is
\* still awaiting.
LifecycleWitness ==
    /\ Len(rows) = 2
    /\ sent.kind = "verify"
    /\ sent.status = 200
    /\ \E h \in BagToSet(pending) : h.kind = "register" /\ h.status = 201

\* C8: for every string or integer a, decrypt(encrypt(a)) is a, value and type.
RoundTrip ==
    fhe.pc = "decrypted" => (fhe.out.ok /\ fhe.out.val = fhe.a)

RoundTripWitness ==
    /\ fhe.pc = "decrypted"
    /\ fhe.a = MkString(<<"a", DQuote, "b">>)
    /\ fhe.out.val = fhe.a

\* C9: decrypt fails on an envelope that is not well-formed (not parseable,
\* wrong scheme tag, payload that decodes to no value) and succeeds on every
\* well-formed one.
DecryptFailsExactlyOnMalformed ==
    fhe.pc = "opened" => (fhe.out.ok <=> WellFormed(fhe.input))

\* The answer of a verify goes by what its SELECT returned.
NotFoundAnswer ==
    sent.kind = "verify" =>
        /\ (sent.status = 404) <=> ~sent.identity.found
        /\ sent.status = 404 =>
              /\ sent.message = "Identity not found"
              /\ sent.encryptedResult = NoCiphertext
        /\ sent.identity.found => sent.status \in {200, 400}
        /\ sent.passportHash = UnknownHash => sent.status = 404

\* The SELECT of a verify returns a row exactly when a row holds the lookup
\* key at that moment, and then that row.
ReadAtSelect ==
    \A h \in BagToSet(pending' (-) pending) :
        h.kind = "verify" =>
            /\ h.identity.found <=> KeyHeld(rows, h.passportHash)
            /\ h.identity.found =>
                  /\ \E i \in 1..Len(rows) : rows[i] = h.identity.row
                  /\ h.identity.row.passportHash = h.passportHash
            /\ h.status = 0

\* C10: verify answers not-found exactly when no row holds the lookup key at
\* the time of the read, and then returns no encrypted result; a key nobody
\* registers is always not-found.
NotFoundIffAbsent == []NotFoundAnswer /\ [][ReadAtSelect]_vars

\* A verify answered not-found for a key that was registered while its
\* handler awaited.
NotFoundWitness ==
    /\ sent.kind = "verify"
    /\ sent.status = 404
    /\ sent.passportHash = SHA256Hex(PassportA)
    /\ KeyHeld(rows, SHA256Hex(PassportA))

\* The fields of a register body that break the stated rules: fullName a
\* non-empty string, age an integer of at least 18, passportId a string of
\* at least 5 characters, expiryDate a string of the form YYYY-MM-DD,
\* verificationCode a string of at least 4 characters.
OffendingFields(input) ==
    {k \in {"fullName"} : ~(input.fullName.t = "string" /\ Len(input.fullName.s) >= 1)}
    \cup {k \in {"age"} :
             ~(input.age.t = "number" /\ input.age.s = <<>> /\ input.age.n >= 18)}
    \cup {k \in {"passportId"} :
             ~(input.passportId.t = "string" /\ Len(input.passportId.s) >= 5)}
    \cup {k \in {"expiryDate"} :
             ~(input.expiryDate.t = "string" /\ MatchesDateRegex(input.expiryDate.s))}
    \cup {k \in {"verificationCode"} :
             ~(input.verificationCode.t = "string" /\ Len(input.verificationCode.s) >= 4)}

\* C11: register rejects with a validation error that names the offending
\* field, and leaves the store unchanged, whenever fullName is empty, age is
\* not an integer of at least 18, passportId is shorter than 5, expiryDate
\* is not YYYY-MM-DD or verificationCode is shorter than 4; with attributes
\* that satisfy all of them and an unused passport identifier it succeeds,
\* also at age 18, passportId of length 5 and verificationCode of length 4.
ValidationContract ==
    LET input == call.h.input
        bad == OffendingFields(input)
    IN  call.pc = "registered" =>
            IF bad # {}
            THEN /\ call.h.status = 400
                 /\ \A k \in bad :
                       \E i \in 1..Len(call.h.issues) : call.h.issues[i].path = k
                 /\ call.rows = call.table
                 /\ call.idSeq = call.seq
            ELSE ~KeyHeld(call.table, SHA256Hex(input.passportId.s)) =>
                    /\ call.h.status = 201
                    /\ KeyHeld(call.rows, SHA256Hex(input.passportId.s))

\* C12: the record a successful register call has just persisted is held
\* under the hash of the submitted passport identifier, has the columns id,
\* passportHash and encryptedData and no other, and its bundle has exactly the
\* keys fullName, age, expiryDate and verificationCode, each a well-formed
\* ciphertext that decrypts to the submitted value, value and type; no
\* ciphertext of the bundle holds the passport identifier.
PersistedAsSubmitted ==
    \A h \in BagToSet(pending) \cup {sent} :
        (h.kind = "register" /\ h.status = 201) =>
            \E i \in 1..Len(rows) :
                /\ rows[i].id = h.id
                /\ DOMAIN rows[i] = {"id", "passportHash", "encryptedData"}
                /\ rows[i].passportHash = SHA256Hex(h.input.passportId.s)
                /\ DOMAIN rows[i].encryptedData = BundleKeys
                /\ \A k \in BundleKeys :
                      /\ WellFormed(rows[i].encryptedData[k])
                      /\ decrypt(rows[i].encryptedData[k]) = [ok |-> TRUE, val |-> h.input[k]]
                      /\ decrypt(rows[i].encryptedData[k]).val # h.input.passportId

PersistedWitness ==
    /\ sent.kind = "register"
    /\ sent.status = 201
    /\ sent.input = BoundaryIdentity
    /\ Len(rows) = 2
    /\ decrypt(rows[2].encryptedData["age"]).val = MkNumber(18)

\* C13: two calls of encrypt on the same plaintext return envelopes that
\* differ in the payload and in the noise, so that no two ciphertexts are
\* identical.
ProbabilisticEncryption ==
    (fhe.pc = "encrypted" /\ fhe.a = fhe.b) =>
        /\ fhe.ca.data # fhe.cb.data
        /\ fhe.ca.noise # fhe.cb.noise
        /\ fhe.ca # fhe.cb

\* C13, amended: two calls of encrypt on the same plaintext return envelopes
\* whose payloads differ exactly when the two nonces drawn differ and whose
\* noise fields differ exactly when the two noise values drawn differ; both
\* decrypt to the plaintext.
DistinctDrawsDistinctCiphertexts ==
    (fhe.pc = "encrypted" /\ fhe.a = fhe.b) =>
        /\ (fhe.ca.data = fhe.cb.data) <=> (fhe.r1 = fhe.r2)
        /\ (fhe.ca.noise = fhe.cb.noise) <=> (fhe.n1 = fhe.n2)
        /\ (fhe.ca = fhe.cb) <=> (fhe.r1 = fhe.r2 /\ fhe.n1 = fhe.n2)
        /\ decrypt(fhe.ca) = decrypt(fhe.cb)

DistinctDrawsWitness ==
    /\ fhe.pc = "encrypted"
    /\ fhe.a = fhe.b
    /\ fhe.a = MkNumber(35)
    /\ fhe.r1 # fhe.r2
    /\ fhe.n1 # fhe.n2
    /\ fhe.ca.data # fhe.cb.data
    /\ fhe.ca.noise # fhe.cb.noise

\* The table holds a record under the hash of data.passportId whose four
\* ciphertexts decrypt to the four attributes of data, value and type.
RegisteredAs(table, data) ==
    \E i \in 1..Len(table) :
        /\ table[i].passportHash = SHA256Hex(data.passportId.s)
        /\ \A k \in BundleKeys :
              decrypt(table[i].encryptedData[k]) = [ok |-> TRUE, val |-> data[k]]

\* An envelope the client's mockEncrypt builds for a string or an integer is
\* opened by the server's decrypt to the same value and type, and a result
\* envelope of the server (an encryption of 0 or 1) is read back to the same
\* value by the client's mockDecrypt.
EnvelopeAgreement ==
    /\ (fhe.pc = "clientEncrypted" /\ fhe.ca # NoCiphertext) =>
           fhe.out = [ok |-> TRUE, val |-> fhe.a]
    /\ (fhe.pc = "clientRead" /\ fhe.a \in {MkNumber(0), MkNumber(1)}) =>
           fhe.out.val = fhe.a

\* An invocation of onSubmit that was given exactly the registered attributes
\* of a registered identity ends with the result success.
VerificationAgreement ==
    \A run \in page.runs :
        (/\ \A next \in page'.runs : next.n # run.n
         /\ RegisteredAs(call.table, run.data)) => page'.result = "success"

\* C14: an envelope the client's mockEncrypt builds for a string or an
\* integer is opened by the server's decrypt to the same value and type; a
\* result envelope of the server (an encryption of 0 or 1) is read back to
\* the same value by the client's mockDecrypt; and a verification in which
\* the page is given exactly the registered attributes of a registered
\* identity finds the record under the client's hash and ends in a result
\* the page reads as 1.
ClientServerAgreement == []EnvelopeAgreement /\ [][VerificationAgreement]_vars

\* C15: no run of seedDatabase ends in an error, whether it runs alone, again
\* after a restart, or with a register call for "A1234567" between its read
\* and its insert; and once a run has ended the table holds exactly one row
\* under the hash of "A1234567".
SeedingIdempotent ==
    /\ seedPc # "failed"
    /\ seedPc \in {"done", "failed"} =>
          Cardinality({i \in 1..Len(rows) : rows[i].passportHash = SeedHash}) = 1

=============================================================================
